---- MODULE Spec2Model ----
(***************************************************************************)
(* Model of sheets_importer.py: the import pipeline of main(), the         *)
(* rate-limit retry of import_csv_to_sheet() and the summary written by    *)
(* update_summary_sheet().  File names and tab titles are sequences of     *)
(* one-character strings so that os.path.join / basename / splitext are    *)
(* computed rather than assumed.                                           *)
(***************************************************************************)
EXTENDS Integers, Sequences, FiniteSets, TLC

\* ---- configuration (config.template.py) ----
MAX_FILE_SIZE_MB == 50
REQUEST_DELAY == 1
FILE_DELAY == 2
MAX_RETRIES == 3

\* ---- bounds of the model ----
MaxFiles == 2

BytesPerMB == 1024 * 1024

\* Directory entries that end in ".csv" (main keeps only those).
Names == { <<"a", ".", "c", "s", "v">>,
           <<"b", ".", "c", "s", "v">>,
           <<".", "c", "s", "v">> }

\* Sizes on both sides of the limit; the limit itself is allowed.
Sizes == { MAX_FILE_SIZE_MB * BytesPerMB, MAX_FILE_SIZE_MB * BytesPerMB + 1 }

\* What the bytes of a file are: text in utf-8, text that only cp949
\* decodes, bytes that only latin-1 decodes, or nothing at all.
Contents == { "utf-8", "cp949", "latin-1", "empty" }

\* Title of the template's first tab.
FirstSheetTitle == <<"S", "u", "m">>

\* Answers of the remote service to one request: an HTTP status, or 0 when
\* the call raises something that is not an HttpError (transport failure).
Replies == { 200, 429, 500, 0 }

Range(s) == { s[i] : i \in 1..Len(s) }

Last(s) == s[Len(s)]

\* All sequences of distinct names of length 0..MaxFiles.
RECURSIVE ListsOfLen(_)
ListsOfLen(n) ==
  IF n = 0 THEN { <<>> }
  ELSE { Append(l, x) : l \in ListsOfLen(n - 1), x \in Names }

FileLists ==
  { l \in UNION { ListsOfLen(n) : n \in 0..MaxFiles } :
      \A i, j \in 1..Len(l) : i # j => l[i] # l[j] }

\* ---- os.path helpers ----
LastIndexOf(s, c) ==
  IF \E i \in 1..Len(s) : s[i] = c
  THEN CHOOSE i \in 1..Len(s) : s[i] = c /\ \A j \in (i + 1)..Len(s) : s[j] # c
  ELSE 0

PathJoin(dir, f) == dir \o <<"/">> \o f

Basename(p) == SubSeq(p, LastIndexOf(p, "/") + 1, Len(p))

\* os.path.splitext(p)[0]: cut at the last dot unless the dot is before the
\* last separator or only dots precede it in the file name.
SplitextRoot(p) ==
  LET sep == LastIndexOf(p, "/")
      dot == LastIndexOf(p, ".")
  IN IF dot > sep /\ \E k \in (sep + 1)..(dot - 1) : p[k] # "."
     THEN SubSeq(p, 1, dot - 1)
     ELSE p

CsvDir == <<"c", "s", "v", "_", "f", "i", "l", "e", "s">>

\* sheet_name of import_csv_to_sheet, from the path main passes.
SheetName(csv_path) == SplitextRoot(Basename(csv_path))

\* ---- validate_file_size ----
SizeExceeded_intdiv(bytes) == (bytes \div BytesPerMB) > MAX_FILE_SIZE_MB

\* file_size_mb = bytes / (1024 * 1024) is exact in floating point, so
\* file_size_mb > max_size_mb is bytes > max_size_mb * 1024 * 1024.
SizeExceeded(bytes) == bytes > MAX_FILE_SIZE_MB * BytesPerMB

\* ---- pd.read_csv under one encoding ----
ReadCsv(content, encoding) ==
  CASE content = "empty" -> "EmptyDataError"
    [] encoding = "utf-8" /\ content # "utf-8" -> "UnicodeDecodeError"
    [] encoding = "cp949" /\ content \notin {"utf-8", "cp949"} -> "UnicodeDecodeError"
    [] OTHER -> "df"

\* The nested try/except of import_csv_to_sheet: utf-8, cp949, latin-1.
LoadCsv(content) ==
  IF ReadCsv(content, "utf-8") # "UnicodeDecodeError"
  THEN ReadCsv(content, "utf-8")
  ELSE IF ReadCsv(content, "cp949") # "UnicodeDecodeError"
       THEN ReadCsv(content, "cp949")
       ELSE ReadCsv(content, "latin-1")

\* ---- tables (pandas DataFrame) ----
\* A cell is text (a sequence of characters; NUL, CR and LF are the
\* characters \x00, \r and \n), a number (v is what str() prints) or a
\* missing value.  A table is its column labels and its rows.
Str(chars) == [t |-> "str", v |-> chars]
Num(digits) == [t |-> "num", v |-> digits]
NaN == [t |-> "nan", v |-> <<>>]

NO_RECORDS == << "N", "O", " ", "R", "E", "C", "O", "R", "D", "S" >>

\* str.isspace() characters of the alphabet; \x00 is not one of them.
Whitespace == { " ", "CR", "LF" }

RECURSIVE LStrip(_)
LStrip(s) == IF s # <<>> /\ Head(s) \in Whitespace THEN LStrip(Tail(s)) ELSE s

RECURSIVE RStrip(_)
RStrip(s) ==
  IF s # <<>> /\ s[Len(s)] \in Whitespace
  THEN RStrip(SubSeq(s, 1, Len(s) - 1))
  ELSE s

\* str.strip()
Strip(s) == RStrip(LStrip(s))

\* str.replace(c, '')
RECURSIVE Remove(_, _)
Remove(s, c) ==
  IF s = <<>> THEN <<>>
  ELSE (IF Head(s) = c THEN <<>> ELSE << Head(s) >>) \o Remove(Tail(s), c)

\* str.replace(c, d) for single characters
Replace(s, c, d) == [i \in 1..Len(s) |-> IF s[i] = c THEN d ELSE s[i]]

\* 'sub' in s, which is what str.contains does for a pattern of plain letters
Contains(s, sub) ==
  \E i \in 1..(Len(s) - Len(sub) + 1) : SubSeq(s, i, i + Len(sub) - 1) = sub

\* clean_value of _clean_dataframe (after fillna('') a missing value is '').
clean_value(val) ==
  IF val.t = "nan" THEN Str(<<>>)
  ELSE Str(Replace(Remove(Remove(Strip(val.v), "NUL"), "CR"), "LF", " "))

\* pd.DataFrame([["NO RECORDS"]]): one row, one column labelled 0.
NoRecordsFrame == [columns |-> << Num(<<"0">>) >>, rows |-> << << Str(NO_RECORDS) >> >>]

NoFrame == [columns |-> <<>>, rows |-> <<>>]

\* df.iloc[0].str: the row of a one-row frame is a numeric Series unless one
\* of its cells is text, and .str on a numeric Series is an AttributeError.
StrAccessorOk(row) == \E j \in 1..Len(row) : row[j].t = "str"

\* df.iloc[0].str.contains('NO RECORDS').any()
RowContainsNoRecords(row) ==
  \E j \in 1..Len(row) : row[j].t = "str" /\ Contains(row[j].v, NO_RECORDS)

\* df.apply(lambda x: x.map(clean_value))
MapClean(df) ==
  [columns |-> df.columns,
   rows |-> [i \in 1..Len(df.rows) |->
               [j \in 1..Len(df.rows[i]) |-> clean_value(df.rows[i][j])]]]

\* _clean_dataframe: the frame it returns, or the exception it raises.
CleanDataFrame(df) ==
  IF df.rows = <<>>
  THEN [exc |-> "none", df |-> NoRecordsFrame]
  ELSE IF Len(df.rows) = 1 /\ ~StrAccessorOk(df.rows[1])
  THEN [exc |-> "AttributeError", df |-> NoFrame]
  ELSE IF Len(df.rows) = 1 /\ RowContainsNoRecords(df.rows[1])
  THEN [exc |-> "none", df |-> NoRecordsFrame]
  ELSE [exc |-> "none", df |-> MapClean(df)]

\* values = [df.columns.values.tolist()] + df.values.tolist()
Values(df) == << df.columns >> \o df.rows

\* ---- the files of a run ----
HeaderH == << Str(<<"h">>) >>
DataTable ==
  [columns |-> HeaderH,
   rows |-> << << Str(<<"a">>) >>, << Str(<<" ", "b", "LF">>) >>, << NaN >> >>]
HeaderOnlyTable == [columns |-> HeaderH, rows |-> <<>>]
SentinelTable == [columns |-> HeaderH, rows |-> << << Str(NO_RECORDS) >> >>]
NumericRowTable == [columns |-> HeaderH, rows |-> << << Num(<<"1">>) >> >>]

\* What read_csv parses out of a file that decodes and has a header line.
FileTables == { DataTable, HeaderOnlyTable, SentinelTable, NumericRowTable }

\* A file too large (never read), a file of each encoding, a file with
\* nothing to parse, and utf-8 files of each table.
Files ==
  LET limit == MAX_FILE_SIZE_MB * BytesPerMB
  IN { [size |-> sz, content |-> "utf-8", table |-> DataTable] : sz \in Sizes }
     \cup { [size |-> limit, content |-> c, table |-> DataTable] :
              c \in Contents \ {"empty"} }
     \cup { [size |-> limit, content |-> "empty", table |-> NoFrame] }
     \cup { [size |-> limit, content |-> "utf-8", table |-> t] : t \in FileTables }

\* ---- the except HttpError clause ----
ShouldRetry_le(status, rc) == status = 429 /\ rc <= MAX_RETRIES

ShouldRetry_plus(status, rc) == status = 429 /\ rc < MAX_RETRIES + 2

ShouldRetry_anystatus(status, rc) == rc < MAX_RETRIES

ShouldRetry(status, rc) == status = 429 /\ rc < MAX_RETRIES

RetryDelay_linear(rc) == (rc + 1) * 30

RetryDelay(rc) == (2 ^ rc) * 30

\* ---- update_summary_sheet: the loop that builds summary_data ----
SummaryFormula(row) == [fn |-> "COUNTA(INDIRECT(A?&\"!A:A\")) - 1", ref |-> row]

RECURSIVE SummaryLoop_fileindex(_, _, _, _)
SummaryLoop_fileindex(files, successful, i, acc) ==
  IF i > Len(files) THEN acc
  ELSE IF files[i] \in Range(successful)
       THEN SummaryLoop_fileindex(files, successful, i + 1,
              Append(acc, << SplitextRoot(files[i]), SummaryFormula(i) >>))
       ELSE SummaryLoop_fileindex(files, successful, i + 1, acc)

RECURSIVE SummaryLoop(_, _, _, _)
SummaryLoop(files, successful, i, acc) ==
  IF i > Len(files) THEN acc
  ELSE IF files[i] \in Range(successful)
       THEN SummaryLoop(files, successful, i + 1,
              Append(acc, << SplitextRoot(files[i]), SummaryFormula(Len(acc) + 1) >>))
       ELSE SummaryLoop(files, successful, i + 1, acc)

SummaryData_all(files, successful) == SummaryLoop(files, files, 1, <<>>)

SummaryData(files, successful) == SummaryLoop(files, successful, 1, <<>>)

\* ---- main: what follows create_spreadsheet ----
AfterCreate_ignore(id) == "loop"

AfterCreate(id) == IF id = "None" THEN "done" ELSE "loop"

VARIABLES
  csv_files,            \* main: the listing, in os.listdir order
  disk,                 \* file name -> [size, content]
  credentials_present,  \* os.path.exists(CREDENTIALS_FILE)
  pc,                   \* position of the single thread of control
  spreadsheet_id,       \* "unset", "None" or "doc"
  index,                \* main: enumerate(csv_files, 1)
  successful_imports,   \* main
  retry_count,          \* import_csv_to_sheet argument
  success,              \* value returned by import_csv_to_sheet
  sheets,               \* remote document: tab titles in order
  cells,                \* remote document: title -> what was written
  summary_data,         \* update_summary_sheet local
  report,               \* the end-of-run log lines (counts)
  lastSleep,            \* seconds slept by the last step, 0 if it did not sleep
  \* history of the file being processed (reset when the next file starts)
  hist,                 \* one entry per attempt that ended: [at, status]
  backoffs,             \* the backoff sleeps taken
  attempts,             \* entries into import_csv_to_sheet
  nCalls,               \* add-tab and write-range requests issued
  nLoads,               \* times the Loader ran
  \* history of the run
  processed,            \* files handed to import_csv_to_sheet
  outcomes,             \* TRUE = Succeeded, FALSE = Failed, per processed file
  fileDelays,           \* inter-file sleeps taken
  summaryRan,           \* update_summary_sheet was called
  summaryBuilt,         \* ... and got as far as building summary_data
  summaryWritten,       \* ... and its write succeeded
  df,                   \* import_csv_to_sheet local: the cleaned frame
  tabAttempt,           \* attempt of this file in which addSheet succeeded, 0 if none
  \* the sanitizer applied on its own
  cpc,                  \* "off", "input", "once", "twice"
  t_in,                 \* a frame as read_csv produces it
  t_once,               \* _clean_dataframe(t_in)
  t_twice               \* _clean_dataframe(_clean_dataframe(t_in))

vars == << csv_files, disk, credentials_present, pc, spreadsheet_id, index,
           successful_imports, retry_count, success, sheets, cells,
           summary_data, report, lastSleep, hist, backoffs, attempts, nCalls,
           nLoads, processed, outcomes, fileDelays, summaryRan, summaryBuilt,
           summaryWritten, df, tabAttempt, cpc, t_in, t_once, t_twice >>

inputs == << csv_files, disk, credentials_present >>
mainVars == << spreadsheet_id, index, successful_imports >>
remoteVars == << sheets, cells >>
summaryVars == << summary_data, summaryRan, summaryBuilt, summaryWritten >>
runHist == << processed, outcomes, fileDelays >>
fileHist == << hist, backoffs, attempts, nCalls, nLoads >>
cleanVars == << cpc, t_in, t_once, t_twice >>

NoReport == [succeeded |-> -1, total |-> -1, failed |-> -1]

\* The state when main starts, over a directory whose files are in `files`.
InitOver(files) ==
  /\ csv_files \in FileLists
  /\ disk \in [Range(csv_files) -> files]
  /\ credentials_present \in BOOLEAN
  /\ pc = "start"
  /\ spreadsheet_id = "unset"
  /\ index = 0
  /\ successful_imports = <<>>
  /\ retry_count = 0
  /\ success = FALSE
  /\ sheets = <<>>
  /\ cells = <<>>
  /\ summary_data = <<>>
  /\ report = NoReport
  /\ lastSleep = 0
  /\ hist = <<>>
  /\ backoffs = <<>>
  /\ attempts = 0
  /\ nCalls = 0
  /\ nLoads = 0
  /\ processed = <<>>
  /\ outcomes = <<>>
  /\ fileDelays = 0
  /\ summaryRan = FALSE
  /\ summaryBuilt = FALSE
  /\ summaryWritten = FALSE
  /\ df = NoFrame
  /\ tabAttempt = 0
  /\ cpc = "off"
  /\ t_in = NoFrame
  /\ t_once = [exc |-> "none", df |-> NoFrame]
  /\ t_twice = [exc |-> "none", df |-> NoFrame]

Init == InitOver(Files)

\* The file main is processing and the path it hands to import_csv_to_sheet.
CurFile == csv_files[index]
CurPath == PathJoin(CsvDir, CurFile)
sheet_name == SheetName(CurPath)

\* main, lines 372-381: no csv files ends the run before authentication.
Start ==
  /\ pc = "start"
  /\ pc' = IF csv_files = <<>> THEN "done" ELSE "auth"
  /\ lastSleep' = 0
  /\ UNCHANGED << inputs, cleanVars, df, tabAttempt, mainVars, retry_count, success, remoteVars,
                  summaryVars, report, fileHist, runHist >>

\* get_credentials: a missing client-secret file is sys.exit(1).
GetCredentials ==
  /\ pc = "auth"
  /\ pc' = IF credentials_present THEN "create" ELSE "exited"
  /\ lastSleep' = 0
  /\ UNCHANGED << inputs, cleanVars, df, tabAttempt, mainVars, retry_count, success, remoteVars,
                  summaryVars, report, fileHist, runHist >>

\* create_spreadsheet and main's test of its result.  An HttpError gives
\* None; any other exception escapes main, which catches HttpError only.
CreateSpreadsheet ==
  /\ pc = "create"
  /\ \E r \in Replies :
       IF r = 200
       THEN /\ spreadsheet_id' = "doc"
            /\ sheets' = << FirstSheetTitle >>
            /\ cells' = (FirstSheetTitle :> <<>>)
            /\ pc' = AfterCreate("doc")
       ELSE IF r = 0
       THEN /\ pc' = "crashed"
            /\ UNCHANGED << spreadsheet_id, sheets, cells >>
       ELSE /\ spreadsheet_id' = "None"
            /\ pc' = AfterCreate("None")
            /\ UNCHANGED << sheets, cells >>
  /\ index' = 1
  /\ successful_imports' = <<>>
  /\ lastSleep' = 0
  /\ UNCHANGED << inputs, cleanVars, df, tabAttempt, retry_count, success, summaryVars, report,
                  fileHist, runHist >>

\* main, the for statement: next file, or the summary after the last one.
LoopHead ==
  /\ pc = "loop"
  /\ IF index <= Len(csv_files)
     THEN /\ pc' = "validate"
          /\ retry_count' = 0
          /\ processed' = Append(processed, CurFile)
          /\ hist' = <<>>
          /\ backoffs' = <<>>
          /\ attempts' = 1
          /\ nCalls' = 0
          /\ nLoads' = 0
          /\ tabAttempt' = 0
     ELSE /\ pc' = "summary"
          /\ UNCHANGED << retry_count, processed, fileHist, tabAttempt >>
  /\ lastSleep' = 0
  /\ UNCHANGED << inputs, cleanVars, df, mainVars, success, remoteVars, summaryVars, report,
                  outcomes, fileDelays >>

\* The two ways an attempt ends without a retry.
ReturnWith(result, at, status) ==
  /\ pc' = "returned"
  /\ success' = result
  /\ hist' = Append(hist, [at |-> at, status |-> status])
  /\ lastSleep' = 0
  /\ UNCHANGED << retry_count, backoffs, attempts >>

HandleError_sleepfirst(at, status) ==
  IF status = 429
  THEN /\ lastSleep' = RetryDelay(retry_count)
       /\ backoffs' = Append(backoffs, RetryDelay(retry_count))
       /\ hist' = Append(hist, [at |-> at, status |-> status])
       /\ IF retry_count < MAX_RETRIES
          THEN /\ retry_count' = retry_count + 1
               /\ attempts' = attempts + 1
               /\ pc' = "validate"
               /\ UNCHANGED success
          ELSE /\ pc' = "returned"
               /\ success' = FALSE
               /\ UNCHANGED << retry_count, attempts >>
  ELSE ReturnWith(FALSE, at, status)

\* except HttpError / except Exception of import_csv_to_sheet, for a
\* request that answered `status` (0: not an HttpError).
HandleError(at, status) ==
  IF status # 0 /\ ShouldRetry(status, retry_count)
  THEN /\ lastSleep' = RetryDelay(retry_count)
       /\ backoffs' = Append(backoffs, RetryDelay(retry_count))
       /\ hist' = Append(hist, [at |-> at, status |-> status])
       /\ retry_count' = retry_count + 1
       /\ attempts' = attempts + 1
       /\ pc' = "validate"
       /\ UNCHANGED success
  ELSE ReturnWith(FALSE, at, status)

\* validate_file_size(csv_file): ValueError when the file is too large.
Validate ==
  /\ pc = "validate"
  /\ IF SizeExceeded(disk[CurFile].size)
     THEN ReturnWith(FALSE, "validate", 0)
     ELSE /\ pc' = "read"
          /\ lastSleep' = 0
          /\ UNCHANGED << retry_count, success, hist, backoffs, attempts >>
  /\ UNCHANGED << inputs, cleanVars, df, tabAttempt, mainVars, remoteVars, summaryVars, report,
                  nCalls, nLoads, runHist >>

\* pd.read_csv with the encoding fallbacks, then _clean_dataframe.
Read ==
  /\ pc = "read"
  /\ nLoads' = nLoads + 1
  /\ IF LoadCsv(disk[CurFile].content) # "df"
     THEN /\ ReturnWith(FALSE, "read", 0)
          /\ UNCHANGED df
     ELSE IF CleanDataFrame(disk[CurFile].table).exc # "none"
     THEN /\ ReturnWith(FALSE, "clean", 0)
          /\ UNCHANGED df
     ELSE /\ df' = CleanDataFrame(disk[CurFile].table).df
          /\ pc' = "pace1"
          /\ lastSleep' = 0
          /\ UNCHANGED << retry_count, success, hist, backoffs, attempts >>
  /\ UNCHANGED << inputs, cleanVars, tabAttempt, mainVars, remoteVars, summaryVars, report,
                  nCalls, runHist >>

\* time.sleep(REQUEST_DELAY) before the addSheet request.
Pace1 ==
  /\ pc = "pace1"
  /\ lastSleep' = REQUEST_DELAY
  /\ pc' = "addSheet"
  /\ UNCHANGED << inputs, cleanVars, df, tabAttempt, mainVars, retry_count, success, remoteVars,
                  summaryVars, report, fileHist, runHist >>

\* batchUpdate(addSheet).  The document rejects a title it already has
\* with a 400.
AddSheet ==
  /\ pc = "addSheet"
  /\ nCalls' = nCalls + 1
  /\ \E r \in Replies :
       LET status == IF r = 200 /\ sheet_name \in Range(sheets) THEN 400 ELSE r
       IN IF status = 200
          THEN /\ sheets' = Append(sheets, sheet_name)
               /\ cells' = (sheet_name :> <<>>) @@ cells
               /\ tabAttempt' = attempts
               /\ pc' = "pace2"
               /\ lastSleep' = 0
               /\ UNCHANGED << retry_count, success, hist, backoffs, attempts >>
          ELSE /\ HandleError("add", status)
               /\ UNCHANGED << sheets, cells, tabAttempt >>
  /\ UNCHANGED << inputs, cleanVars, df, mainVars, summaryVars, report, nLoads, runHist >>

Pace2_skip ==
  /\ pc = "pace2"
  /\ lastSleep' = 0
  /\ pc' = "update"
  /\ UNCHANGED << inputs, cleanVars, df, tabAttempt, mainVars, retry_count, success, remoteVars,
                  summaryVars, report, fileHist, runHist >>

\* time.sleep(REQUEST_DELAY) before the values().update request.
Pace2 ==
  /\ pc = "pace2"
  /\ lastSleep' = REQUEST_DELAY
  /\ pc' = "update"
  /\ UNCHANGED << inputs, cleanVars, df, tabAttempt, mainVars, retry_count, success, remoteVars,
                  summaryVars, report, fileHist, runHist >>

\* values().update(range = sheet_name!A1, RAW) and return True.
Update ==
  /\ pc = "update"
  /\ nCalls' = nCalls + 1
  /\ \E r \in Replies :
       IF r = 200
       THEN /\ cells' = [cells EXCEPT
                           ![sheet_name] = [mode |-> "RAW", values |-> Values(df)]]
            /\ ReturnWith(TRUE, "update", 200)
       ELSE /\ HandleError("update", r)
            /\ UNCHANGED cells
  /\ UNCHANGED << inputs, cleanVars, df, tabAttempt, mainVars, sheets, summaryVars, report, nLoads,
                  runHist >>

RecordOutcome_abort ==
  /\ pc = "returned"
  /\ successful_imports' =
       IF success THEN Append(successful_imports, CurFile) ELSE successful_imports
  /\ outcomes' = Append(outcomes, success)
  /\ IF index < Len(csv_files) /\ success
     THEN lastSleep' = FILE_DELAY /\ fileDelays' = fileDelays + 1
     ELSE lastSleep' = 0 /\ UNCHANGED fileDelays
  /\ index' = IF success THEN index + 1 ELSE Len(csv_files) + 1
  /\ pc' = "loop"
  /\ UNCHANGED << inputs, cleanVars, df, tabAttempt, spreadsheet_id, retry_count, success, remoteVars,
                  summaryVars, report, fileHist, processed >>

RecordOutcome_sleepalways ==
  /\ pc = "returned"
  /\ successful_imports' =
       IF success THEN Append(successful_imports, CurFile) ELSE successful_imports
  /\ outcomes' = Append(outcomes, success)
  /\ lastSleep' = FILE_DELAY
  /\ fileDelays' = fileDelays + 1
  /\ index' = index + 1
  /\ pc' = "loop"
  /\ UNCHANGED << inputs, cleanVars, df, tabAttempt, spreadsheet_id, retry_count, success, remoteVars,
                  summaryVars, report, fileHist, processed >>

RecordOutcome_always ==
  /\ pc = "returned"
  /\ successful_imports' = Append(successful_imports, CurFile)
  /\ outcomes' = Append(outcomes, success)
  /\ IF index < Len(csv_files)
     THEN lastSleep' = FILE_DELAY /\ fileDelays' = fileDelays + 1
     ELSE lastSleep' = 0 /\ UNCHANGED fileDelays
  /\ index' = index + 1
  /\ pc' = "loop"
  /\ UNCHANGED << inputs, cleanVars, df, tabAttempt, spreadsheet_id, retry_count, success, remoteVars,
                  summaryVars, report, fileHist, processed >>

\* main, lines 405-410: record a success, sleep between files.
RecordOutcome ==
  /\ pc = "returned"
  /\ successful_imports' =
       IF success THEN Append(successful_imports, CurFile) ELSE successful_imports
  /\ outcomes' = Append(outcomes, success)
  /\ IF index < Len(csv_files)
     THEN lastSleep' = FILE_DELAY /\ fileDelays' = fileDelays + 1
     ELSE lastSleep' = 0 /\ UNCHANGED fileDelays
  /\ index' = index + 1
  /\ pc' = "loop"
  /\ UNCHANGED << inputs, cleanVars, df, tabAttempt, spreadsheet_id, retry_count, success, remoteVars,
                  summaryVars, report, fileHist, processed >>

SummaryGet_raises ==
  /\ pc = "summary"
  /\ summaryRan' = TRUE
  /\ \E r \in Replies :
       IF r = 200 /\ sheets # <<>>
       THEN /\ summary_data' = SummaryData(csv_files, successful_imports)
            /\ summaryBuilt' = TRUE
            /\ pc' = IF summary_data' # <<>> THEN "summary_write" ELSE "report"
       ELSE /\ pc' = IF r = 0 THEN "report" ELSE "done"
            /\ UNCHANGED << summary_data, summaryBuilt >>
  /\ lastSleep' = 0
  /\ UNCHANGED << inputs, cleanVars, df, tabAttempt, mainVars, retry_count, success, remoteVars, report,
                  fileHist, runHist, summaryWritten >>

\* update_summary_sheet up to its write: read the metadata, build the rows.
\* Every exception is caught inside the function.
SummaryGet ==
  /\ pc = "summary"
  /\ summaryRan' = TRUE
  /\ \E r \in Replies :
       IF r = 200 /\ sheets # <<>>
       THEN /\ summary_data' = SummaryData(csv_files, successful_imports)
            /\ summaryBuilt' = TRUE
            /\ pc' = IF summary_data' # <<>> THEN "summary_write" ELSE "report"
       ELSE /\ pc' = "report"
            /\ UNCHANGED << summary_data, summaryBuilt >>
  /\ lastSleep' = 0
  /\ UNCHANGED << inputs, cleanVars, df, tabAttempt, mainVars, retry_count, success, remoteVars, report,
                  fileHist, runHist, summaryWritten >>

\* values().update(range = first_sheet_title!A1, USER_ENTERED).
SummaryWrite ==
  /\ pc = "summary_write"
  /\ \E r \in Replies :
       IF r = 200
       THEN /\ cells' = [cells EXCEPT
                           ![sheets[1]] = [mode |-> "USER_ENTERED",
                                           values |-> summary_data]]
            /\ summaryWritten' = TRUE
       ELSE UNCHANGED << cells, summaryWritten >>
  /\ pc' = "report"
  /\ lastSleep' = 0
  /\ UNCHANGED << inputs, cleanVars, df, tabAttempt, mainVars, retry_count, success, sheets, report,
                  fileHist, runHist, summary_data, summaryRan, summaryBuilt >>

\* main, lines 415-419: the end-of-run report.
Report ==
  /\ pc = "report"
  /\ report' = [succeeded |-> Len(successful_imports),
                total |-> Len(csv_files),
                failed |-> IF Len(successful_imports) < Len(csv_files)
                           THEN Len(csv_files) - Len(successful_imports)
                           ELSE 0]
  /\ pc' = "done"
  /\ lastSleep' = 0
  /\ UNCHANGED << inputs, cleanVars, df, tabAttempt, mainVars, retry_count, success, remoteVars,
                  summaryVars, fileHist, runHist >>

Next ==
  \/ Start
  \/ GetCredentials
  \/ CreateSpreadsheet
  \/ LoopHead
  \/ Validate
  \/ Read
  \/ Pace1
  \/ AddSheet
  \/ Pace2
  \/ Update
  \/ RecordOutcome
  \/ SummaryGet
  \/ SummaryWrite
  \/ Report

Spec == Init /\ [][Next]_vars

\* One file for each way validate_file_size, read_csv and _clean_dataframe
\* can end: too large, loaded and cleaned, nothing to parse, cleaning raises.
FairFiles ==
  { f \in Files : \/ f.table = DataTable /\ f.content = "utf-8"
                  \/ f.content = "empty"
                  \/ f.table = NumericRowTable }

FairInit == InitOver(FairFiles)

\* The program is one sequential thread: a step that can be taken is taken.
FairSpec == FairInit /\ [][Next]_vars /\ WF_vars(Next)

\* ---- the sanitizer on its own, over bounded frames ----
MaxCellLen == 3
MaxRows == 2
MaxCols == 2

Alphabet == { "a", " ", "NUL", "CR", "LF" }

RECURSIVE StringsOfLen(_)
StringsOfLen(n) ==
  IF n = 0 THEN { <<>> }
  ELSE { Append(w, c) : w \in StringsOfLen(n - 1), c \in Alphabet }

\* Every text of at most MaxCellLen characters, the marker, a number and a
\* missing value.
AllCells ==
  { Str(w) : w \in UNION { StringsOfLen(n) : n \in 0..MaxCellLen } }
  \cup { Str(NO_RECORDS), Num(<<"1">>), NaN }

\* The cells of the larger frames.
FewCells == { Str(<<"a">>), Str(NO_RECORDS), Num(<<"1">>), NaN }

Header(ncols) == [j \in 1..ncols |-> Str(<< "h" >>)]

\* One-cell frames over every cell.
OneCellFrames == { [columns |-> Header(1), rows |-> << << c >> >>] : c \in AllCells }

\* Frames of nr rows and nc columns over the few cells.
FramesOfShape(nr, nc) ==
  { [columns |-> Header(nc), rows |-> r] : r \in [1..nr -> [1..nc -> FewCells]] }

\* The frame is a one-cell frame, or has up to MaxRows rows (zero rows
\* included) and up to MaxCols columns.
CleanInit ==
  /\ cpc = "input"
  /\ \/ t_in \in OneCellFrames
     \/ \E nr \in 0..MaxRows, nc \in 1..MaxCols : t_in \in FramesOfShape(nr, nc)
  /\ t_once = [exc |-> "none", df |-> NoFrame]
  /\ t_twice = [exc |-> "none", df |-> NoFrame]
  /\ csv_files = <<>>
  /\ disk = <<>>
  /\ credentials_present = FALSE
  /\ pc = "done"
  /\ spreadsheet_id = "unset"
  /\ index = 0
  /\ successful_imports = <<>>
  /\ retry_count = 0
  /\ success = FALSE
  /\ sheets = <<>>
  /\ cells = <<>>
  /\ summary_data = <<>>
  /\ report = NoReport
  /\ lastSleep = 0
  /\ hist = <<>>
  /\ backoffs = <<>>
  /\ attempts = 0
  /\ nCalls = 0
  /\ nLoads = 0
  /\ processed = <<>>
  /\ outcomes = <<>>
  /\ fileDelays = 0
  /\ summaryRan = FALSE
  /\ summaryBuilt = FALSE
  /\ summaryWritten = FALSE
  /\ df = NoFrame
  /\ tabAttempt = 0

pipelineVars ==
  << inputs, mainVars, retry_count, success, remoteVars, summaryVars, report,
     lastSleep, fileHist, runHist, df, tabAttempt, pc >>

\* df = _clean_dataframe(df) on a frame the Loader produced.
CleanOnce ==
  /\ cpc = "input"
  /\ t_once' = CleanDataFrame(t_in)
  /\ cpc' = IF t_once'.exc = "none" THEN "once" ELSE "raised"
  /\ UNCHANGED << t_in, t_twice, pipelineVars >>

\* _clean_dataframe applied to its own result.
CleanTwice ==
  /\ cpc = "once"
  /\ t_twice' = CleanDataFrame(t_once.df)
  /\ cpc' = "twice"
  /\ UNCHANGED << t_in, t_once, pipelineVars >>

CleanNext == CleanOnce \/ CleanTwice

CleanSpec == CleanInit /\ [][CleanNext]_vars

TypeOK ==
  /\ pc \in { "start", "auth", "create", "loop", "validate", "read", "pace1",
              "addSheet", "pace2", "update", "returned", "summary",
              "summary_write", "report", "done", "exited", "crashed" }
  /\ retry_count \in 0..(MAX_RETRIES + 2)
  /\ index \in 0..(MaxFiles + 2)

\* ---- properties ----

ImportPcs == { "validate", "read", "pace1", "addSheet", "pace2", "update" }

Terminal == { "done", "exited", "crashed" }

Oversized(f) == disk[f].size > MAX_FILE_SIZE_MB * BytesPerMB

AllRateLimited == hist # <<>> /\ \A i \in 1..Len(hist) : hist[i].status = 429

SuccIdx == { i \in 1..Len(outcomes) : outcomes[i] }

\* C1: a file whose first two attempts ended in a 429 (at add-tab or at
\* write-range) and whose third attempt met no 429 and no service fault
\* ends Succeeded after exactly the backoff sleeps 30 s, 60 s.
C1_RateLimitedTwiceThenSucceeds ==
  ( /\ pc = "returned"
    /\ Len(hist) = 3
    /\ hist[1].status = 429
    /\ hist[2].status = 429
    /\ hist[3].status \in {200, 400} )
  => (success /\ backoffs = << 30, 60 >>)

\* C2: the retries done for one file never exceed MAX_RETRIES.
C2_RetriesBounded ==
  /\ retry_count <= MAX_RETRIES
  /\ Len(backoffs) <= MAX_RETRIES
  /\ attempts - 1 <= MAX_RETRIES

C2_Witness ==
  pc = "returned" /\ retry_count = MAX_RETRIES /\ AllRateLimited /\ ~success

\* C3 as stated: the attempts made for one file (first attempt plus
\* retries) never exceed MAX_RETRIES.
C3_AttemptsAtMostMaxRetries == attempts <= MAX_RETRIES

\* C3 amended: the attempts made for one file never exceed MAX_RETRIES + 1,
\* the first attempt plus at most MAX_RETRIES retries.
C3_AttemptsAtMostMaxRetriesPlusOne ==
  /\ attempts <= MAX_RETRIES + 1
  /\ Len(hist) <= MAX_RETRIES + 1

C3_Witness == attempts = MAX_RETRIES + 1 /\ pc = "update"

\* C4: the n-th backoff sleep of a file (n from 0) lasts 30 * 2^n seconds
\* and follows an attempt that ended in a 429; a step that ends an attempt
\* otherwise sleeps for nothing.
C4_BackoffSequence ==
  /\ Len(backoffs) <= Len(hist)
  /\ \A n \in 1..Len(backoffs) :
       n <= Len(hist) => backoffs[n] = 30 * (2 ^ (n - 1)) /\ hist[n].status = 429
  /\ lastSleep \notin {0, REQUEST_DELAY, FILE_DELAY}
       => (backoffs # <<>> /\ lastSleep = Last(backoffs) /\ Last(hist).status = 429)
  /\ (hist # <<>> /\ Last(hist).status # 429 /\ pc = "returned") => lastSleep = 0

C4_Witness ==
  /\ pc = "returned"
  /\ backoffs = << 30, 60, 120 >>
  /\ Last(hist).status = 500

\* C5: a file that is answered 429 on every attempt ends Failed as soon as
\* the retry bound is reached, with MAX_RETRIES backoff sleeps and no sleep
\* or request after the last 429; every call of import_csv_to_sheet returns.
C5_SustainedRateLimitFails ==
  /\ []( (pc \in ImportPcs \cup {"returned"} /\ AllRateLimited
            /\ Len(hist) > MAX_RETRIES)
           => ( /\ pc = "returned"
                /\ ~success
                /\ Len(hist) = MAX_RETRIES + 1
                /\ Len(backoffs) = MAX_RETRIES
                /\ lastSleep = 0
                /\ nCalls <= 2 * (MAX_RETRIES + 1) ) )
  /\ ((pc = "validate" /\ retry_count = 0) ~> (pc = "returned"))

C5_Witness ==
  pc = "returned" /\ AllRateLimited /\ Len(hist) = MAX_RETRIES + 1 /\ ~success

\* C6: a step in which an attempt ends with anything but success or a 429
\* (an HttpError of another status, or another exception while validating,
\* parsing or uploading) returns False at once, with no retry and no sleep;
\* from there main goes on to the next file without another request.
C6_OtherErrorsFailWithoutRetry ==
  [][ /\ (hist' # hist /\ hist' # <<>> /\ Last(hist').status \notin {200, 429})
         => ( /\ pc' = "returned"
              /\ success' = FALSE
              /\ backoffs' = backoffs
              /\ retry_count' = retry_count
              /\ attempts' = attempts
              /\ lastSleep' = 0 )
      /\ (pc = "returned")
         => ( /\ pc' = "loop"
              /\ index' = index + 1
              /\ nCalls' = nCalls
              /\ backoffs' = backoffs ) ]_vars

C6_Witness ==
  /\ pc = "loop"
  /\ index = 2
  /\ Len(csv_files) = 2
  /\ outcomes = << FALSE >>
  /\ hist = << [at |-> "add", status |-> 500] >>
  /\ backoffs = <<>>

\* C7: a file strictly larger than the limit is never parsed, gets no
\* add-tab or write-range request and no tab, ends Failed, and is not
\* counted as succeeded in the report.
C7_OversizedNeverLoaded ==
  /\ (pc \in ImportPcs \cup {"returned"} /\ Oversized(CurFile))
       => ( /\ nLoads = 0
            /\ nCalls = 0
            /\ pc \in {"validate", "returned"}
            /\ (pc = "returned" => ~success) )
  /\ \A i \in 1..Len(processed) :
       Oversized(csv_files[i])
         => ( /\ SheetName(PathJoin(CsvDir, csv_files[i])) \notin Range(sheets)
              /\ csv_files[i] \notin Range(successful_imports)
              /\ (i <= Len(outcomes) => ~outcomes[i]) )
  /\ report # NoReport
       => report.succeeded <=
            Cardinality({ i \in 1..Len(csv_files) : ~Oversized(csv_files[i]) })

C7_Witness ==
  /\ pc = "done"
  /\ Len(csv_files) = 1
  /\ Oversized(csv_files[1])
  /\ outcomes = << FALSE >>
  /\ report.succeeded = 0
  /\ report.total = 1
  /\ sheets = << FirstSheetTitle >>

\* C8: once the document exists, the files are processed one by one in
\* listing order, the summary step runs only after all of them, and the
\* run reaches its terminal state, whatever the outcomes were.
C8_AllFilesThenSummaryThenDone ==
  /\ []( /\ Len(processed) <= Len(csv_files)
         /\ processed = SubSeq(csv_files, 1, Len(processed))
         /\ Len(outcomes) <= Len(processed)
         /\ (summaryRan => (processed = csv_files /\ Len(outcomes) = Len(csv_files)))
         /\ ((pc = "done" /\ spreadsheet_id = "doc") => summaryRan) )
  /\ ((spreadsheet_id = "doc")
        ~> (pc = "done" /\ summaryRan /\ processed = csv_files))

C8_Witness ==
  /\ pc = "done"
  /\ summaryRan
  /\ Len(csv_files) = 2
  /\ outcomes = << FALSE, TRUE >>

\* C9: when create_spreadsheet returns None the run is over at once: no
\* file is handed to import_csv_to_sheet, no request is issued, no summary.
C9_CreationFailureStopsRun ==
  spreadsheet_id = "None"
    => ( /\ pc = "done"
         /\ processed = <<>>
         /\ attempts = 0
         /\ nCalls = 0
         /\ sheets = <<>>
         /\ ~summaryRan
         /\ report = NoReport )

C9_Witness == spreadsheet_id = "None" /\ pc = "done" /\ csv_files # <<>>

\* C10: the rows update_summary_sheet builds and writes are one per
\* succeeded file, in listing order; a failed file has no row, and with no
\* succeeded file nothing is written.
C10_SummaryRowsAreSucceededFiles ==
  /\ summaryBuilt
       => ( /\ Len(summary_data) = Cardinality(SuccIdx)
            /\ \A k \in 1..Len(summary_data) :
                 \E i \in SuccIdx :
                   /\ Cardinality({ j \in SuccIdx : j <= i }) = k
                   /\ summary_data[k][1] = SplitextRoot(csv_files[i]) )
  /\ summaryWritten
       => ( /\ summaryBuilt
            /\ SuccIdx # {}
            /\ cells[sheets[1]].values = summary_data )

C10_Witness ==
  /\ summaryWritten
  /\ outcomes = << FALSE, TRUE >>
  /\ Len(summary_data) = 1

\* The tab name import_csv_to_sheet derives for the i-th listed file.
TabOf(f) == SheetName(PathJoin(CsvDir, f))

\* C11: the k-th summary row names in column A the tab that
\* import_csv_to_sheet created for the k-th succeeded file, and its formula
\* refers to A<k>, the row it lands on when the rows are written from A1.
C11_SummaryRowCountsOwnTab ==
  /\ summaryBuilt
       => \A k \in 1..Len(summary_data) :
            \E i \in SuccIdx :
              /\ Cardinality({ j \in SuccIdx : j <= i }) = k
              /\ summary_data[k][1] = TabOf(csv_files[i])
              /\ TabOf(csv_files[i]) \in Range(sheets)
              /\ summary_data[k][2].ref = k
  /\ summaryWritten
       => \A k \in 1..Len(summary_data) :
            /\ cells[sheets[1]].values[k][1] = summary_data[k][1]
            /\ cells[sheets[1]].values[k][2].ref = k

C11_Witness ==
  /\ summaryWritten
  /\ Len(csv_files) = 2
  /\ outcomes = << FALSE, TRUE >>
  /\ cells[sheets[1]].values[1][1] = TabOf(csv_files[2])
  /\ cells[sheets[1]].values[1][2].ref = 1

\* C12: once the document exists the run reaches the report, and the
\* report counts as succeeded exactly the files whose outcome was Succeeded
\* and as failed the rest, also when the summary step failed.
C12_ReportCountsOutcomes ==
  /\ []( report # NoReport
           => ( /\ Len(outcomes) = Len(csv_files)
                /\ report.succeeded = Cardinality(SuccIdx)
                /\ report.total = Len(csv_files)
                /\ report.failed = Len(csv_files) - Cardinality(SuccIdx) ) )
  /\ ((spreadsheet_id = "doc") ~> (report # NoReport))

C12_Witness ==
  /\ report # NoReport
  /\ summaryRan
  /\ ~summaryBuilt
  /\ outcomes = << TRUE, FALSE >>
  /\ report.succeeded = 1
  /\ report.failed = 1

\* C13: sanitizing a sanitized frame changes nothing:
\* _clean_dataframe(_clean_dataframe(t)) = _clean_dataframe(t), cell for cell.
C13_SanitizerIdempotent ==
  cpc = "twice" => (t_twice.exc = "none" /\ t_twice.df = t_once.df)

\* C14: a file whose table has no data row, or one data row whose only
\* cell is NO RECORDS, is sanitized to a one-cell table holding NO RECORDS,
\* and that one cell is all that is written to the file's tab.
C14_NoRecordsIsTheOnlyCellWritten ==
  ( /\ pc = "returned"
    /\ success
    /\ \/ disk[CurFile].table.rows = <<>>
       \/ disk[CurFile].table.rows = << << Str(NO_RECORDS) >> >> )
  => ( /\ df.rows = << << Str(NO_RECORDS) >> >>
       /\ Len(df.columns) = 1
       /\ cells[sheet_name].values = << << Str(NO_RECORDS) >> >> )

\* C15: _clean_dataframe returns a frame for every frame the Loader can
\* produce; it never raises.
C15_SanitizerNeverRaises == cpc # "input" => t_once.exc = "none"

\* C16: the inter-file sleep is taken once after every file but the last,
\* whatever the outcome: n - 1 times in a run over n >= 1 files.
C16_InterFileDelays ==
  /\ fileDelays = IF Len(outcomes) < Len(csv_files)
                  THEN Len(outcomes)
                  ELSE IF csv_files = <<>> THEN 0 ELSE Len(csv_files) - 1
  /\ lastSleep = FILE_DELAY
       => (pc = "loop" /\ index <= Len(csv_files) /\ Len(outcomes) = index - 1)
  /\ (pc \in {"report", "done"} /\ summaryRan) => fileDelays = Len(csv_files) - 1

C16_Witness ==
  /\ pc = "done"
  /\ Len(csv_files) = 2
  /\ outcomes = << FALSE, FALSE >>
  /\ fileDelays = 1

\* C17: the step that issues an add-tab or write-range request starts right
\* after a pacing sleep of REQUEST_DELAY, on the first attempt and on retries.
C17_EveryCallIsPaced ==
  [][ (nCalls' = nCalls + 1)
        => (lastSleep = REQUEST_DELAY /\ pc \in {"addSheet", "update"}) ]_vars

C17_Witness ==
  /\ pc = "returned"
  /\ success
  /\ attempts = 3
  /\ nCalls = 4

\* C18: a file without data rows, be it completely empty or a header line
\* only, is loaded as the NO RECORDS table and goes on to the upload; it
\* succeeds when the upload does.
C18_NoDataRowsIsNotAnError ==
  ( /\ pc = "returned"
    /\ ~Oversized(CurFile)
    /\ \/ disk[CurFile].content = "empty"
       \/ disk[CurFile].table.rows = <<>> )
  => ( /\ Last(hist).at \in {"add", "update"}
       /\ df = NoRecordsFrame
       /\ (Last(hist).status = 200 => success) )

\* C19: a file is in successful_imports only when, in one and the same
\* attempt, addSheet and then values().update both completed; each such
\* file has its tab holding the header row and rows of its sanitized
\* table, and is listed once.
C19_SucceededMeansTabWritten ==
  /\ (pc = "returned" /\ success)
       => ( /\ tabAttempt = attempts
            /\ Last(hist) = [at |-> "update", status |-> 200]
            /\ nCalls >= 2 )
  /\ \A k \in 1..Len(successful_imports) :
       LET f == successful_imports[k]
       IN /\ \E i \in SuccIdx : csv_files[i] = f
          /\ TabOf(f) \in Range(sheets)
          /\ cells[TabOf(f)] =
               [mode |-> "RAW", values |-> Values(CleanDataFrame(disk[f].table).df)]
          /\ \A m \in 1..Len(successful_imports) :
               m # k => successful_imports[m] # f
  /\ Len(successful_imports) = Cardinality(SuccIdx)

C19_Witness ==
  /\ pc = "done"
  /\ Len(successful_imports) = 2
  /\ Len(sheets) = 3
====
